---- MODULE Spec2Model ----
(***************************************************************************)
(* AskMyCommunity: the place aggregation pipeline of                       *)
(* frontend/src/app/api/places/route.ts (scrapeBlogSource, searchPlaces,   *)
(* POST, GET) and the place enhancer of frontend/src/lib/ai-service.ts     *)
(* (AIService), and the directions route (generateDirections,              *)
(* calculateDistance, adjustDuration, POST, GET).                          *)
(*                                                                         *)
(* Sequences are 1-based here and 0-based in the source: an index i of the *)
(* source is i + 1 here, and findIndex's "not found" (-1) is 0.            *)
(* A name is a sequence of characters, so that toLowerCase is computed     *)
(* character by character. A JavaScript number that may be NaN or Infinity *)
(* is a record [kind, val].                                                *)
(*                                                                         *)
(* Left out of a Place: latitude, longitude, rating and price_level        *)
(* (Math.random()), place_type, photo_url and website; nothing below reads *)
(* them.                                                                   *)
(***************************************************************************)
EXTENDS Integers, Sequences, FiniteSets, TLC

\* --------------------------------------------------------------- bounds

\* The result containers of the documents fetched for one search, all
\* sources together.
MaxItems == 3

\* The places of one enhancePlaces batch.
MaxPlaces == 2

\* ------------------------------------------------------------ constants

DefaultPage == 1
PostDefaultPageSize == 20
GetDefaultPageSize == 10

\* BLOG_SOURCES in registration order; lower is name.toLowerCase().
BLOG_SOURCES ==
  << [name |-> "Time Out",      lower |-> "time out"],
     [name |-> "Lonely Planet", lower |-> "lonely planet"],
     [name |-> "TripAdvisor",   lower |-> "tripadvisor"] >>

Sources == DOMAIN BLOG_SOURCES

\* ------------------------------------------------------------ helpers

Min(a, b) == IF a < b THEN a ELSE b
Max(a, b) == IF a > b THEN a ELSE b

\* An optional value: <<>> is undefined (or null), <<v>> is v.
Undefined == << >>
Some(v) == << v >>
OrDefault(opt, d) == IF opt = Undefined THEN d ELSE opt[1]

\* JavaScript numbers that need not be finite.
Num(n) == [kind |-> "finite", val |-> n]
NaN == [kind |-> "NaN", val |-> 0]
Infinity == [kind |-> "Infinity", val |-> 0]

\* String.prototype.toLowerCase, character by character.
LowerChar(c) ==
  CASE c = "C" -> "c"
    [] c = "X" -> "x"
    [] c = "Y" -> "y"
    [] c = "B" -> "b"
    [] c = "Z" -> "z"
    [] OTHER -> c

ToLowerCase(s) == [i \in DOMAIN s |-> LowerChar(s[i])]

\* Array.prototype.flat over the per-source lists, in source order.
RECURSIVE Flat(_)
Flat(lists) ==
  IF lists = << >> THEN << >> ELSE Head(lists) \o Flat(Tail(lists))

\* Array.prototype.slice(start, end): a negative index counts from the end,
\* and both are clamped to 0..length.
RelativeIndex(k, len) == IF k < 0 THEN Max(len + k, 0) ELSE Min(k, len)

Slice(s, start, end) ==
  LET k == RelativeIndex(start, Len(s))
      final == RelativeIndex(end, Len(s))
  IN IF final <= k THEN << >> ELSE SubSeq(s, k + 1, final)

\* Math.ceil(a / b) of integers a >= 0 and b: a / 0 is NaN for a = 0 and
\* Infinity otherwise.
CeilDiv(a, b) ==
  IF b = 0 THEN (IF a = 0 THEN NaN ELSE Infinity)
  ELSE IF b > 0 THEN Num((a + b - 1) \div b)
  ELSE Num(-(a \div (-b)))

\* JSON.stringify of a number: NaN and Infinity become null.
JsonNumber(x) == IF x.kind = "finite" THEN Some(x.val) ELSE Undefined

\* ------------------------------------------------------- input domains

\* Titles: two that differ in case only, and a third.
CafeX == << "C", "X" >>
cafex == << "c", "x" >>
CafeY == << "C", "Y" >>
BarZ == << "B", "Z" >>
Names == { CafeX, cafex, CafeY }
NoText == << >>

\* One result container of a fetched page: the trimmed text of its title and
\* description elements, and whether reading it throws.
Item(t, d, r) == [title |-> t, description |-> d, raises |-> r]
WellFormedItems == { Item(n, "about", FALSE) : n \in Names \cup { BarZ } }
Items ==
  { Item(n, "about", FALSE) : n \in Names }
    \cup { Item(NoText, "about", FALSE),
           Item(CafeX, "", FALSE),
           Item(CafeX, "about", TRUE) }

RECURSIVE SeqsUpTo(_, _)
SeqsUpTo(S, n) ==
  IF n = 0 THEN { << >> }
  ELSE LET shorter == SeqsUpTo(S, n - 1)
       IN shorter \cup { Append(s, x) : s \in { t \in shorter : Len(t) = n - 1 }, x \in S }

\* What axios.get and cheerio.load give for one source.
FetchFailures == { "network_error", "timeout", "load_exception" }
Fetched(kind, doc) == [kind |-> kind, items |-> doc]
NotFetched == Fetched("pending", << >>)

\* A query parameter of a GET request is text: an optional "-" and digits.
DigitValue(c) ==
  CASE c = "0" -> 0 [] c = "1" -> 1 [] c = "2" -> 2 [] c = "3" -> 3
    [] c = "4" -> 4 [] c = "5" -> 5 [] c = "6" -> 6 [] c = "7" -> 7
    [] c = "8" -> 8 [] c = "9" -> 9

RECURSIVE DigitsValue(_, _)
DigitsValue(text, acc) ==
  IF text = << >> THEN acc
  ELSE DigitsValue(Tail(text), 10 * acc + DigitValue(Head(text)))

\* parseInt of such text.
ParseInt(text) ==
  IF Head(text) = "-" THEN -DigitsValue(Tail(text), 0) ELSE DigitsValue(text, 0)

\* The decimal text of n, for -9 <= n <= 99.
DigitChar(d) == << "0", "1", "2", "3", "4", "5", "6", "7", "8", "9" >>[d + 1]
NatText(n) ==
  IF n < 10 THEN << DigitChar(n) >> ELSE << DigitChar(n \div 10), DigitChar(n % 10) >>
IntText(n) == IF n < 0 THEN << "-" >> \o NatText(-n) ELSE NatText(n)

\* The inputs a specification draws from: the q parameter a GET may carry,
\* the page and page_size values a request may carry, the containers a
\* fetched page may hold, and the ways a fetch may fail.
Pages == -1 .. 3
PageSizes == 0 .. 2
ScrapeInputs ==
  [queries |-> { Undefined, Some(""), Some("coffee") }, pages |-> {}, sizes |-> {},
   items |-> Items, failures |-> FetchFailures, ordered |-> FALSE]
PagingInputs ==
  [queries |-> { Some("coffee") }, pages |-> Pages, sizes |-> PageSizes,
   items |-> WellFormedItems, failures |-> { "network_error" }, ordered |-> FALSE]

\* Searches whose completion order is recorded, and searches run under
\* fairness.
OrderInputs ==
  [queries |-> { Some("coffee") }, pages |-> {}, sizes |-> {},
   items |-> { Item(n, "about", FALSE) : n \in Names },
   failures |-> { "timeout" }, ordered |-> TRUE]
LiveInputs ==
  [queries |-> { Undefined, Some("coffee") }, pages |-> {}, sizes |-> { 1 },
   items |-> { Item(CafeX, "about", FALSE), Item(CafeX, "about", TRUE) },
   failures |-> { "timeout", "network_error" }, ordered |-> FALSE]

\* ----------------------------------------------------------------- state

VARIABLES
  request,       \* the search request as received [method, body, query, page, page_size]
  pc,            \* the search request: "idle", "scraping", "done"
  args,          \* searchPlaces' arguments [query, page, pageSize]
  fetched,       \* per source: what its network call settled with
  scrapePromises,\* per source: the promise of its scrapeBlogSource call
  completion,    \* the sources in the order their promises settled, where recorded
  allPlaces,     \* searchPlaces' allPlaces
  uniquePlaces,  \* searchPlaces' uniquePlaces
  response,      \* the HTTP response [status, body]
  apiKey,        \* process.env.GOOGLE_AI_API_KEY is set
  model,         \* AIService.model: "unloaded" before the singleton is built,
                 \* then "initialised" or "undefined"
  enhPc,         \* the enhancePlaces call: "idle", "awaiting", "done", "rejected"
  batch,         \* enhancePlaces' places
  promises,      \* per place of the batch: its enhancePlace promise
  modelCalls,    \* generateContent calls made so far
  enhancedPlaces,\* what enhancePlaces resolved with
  dirRequest,    \* the directions request as received
  generated,     \* the generateDirections call made for it, if any
  dirResponse,   \* the HTTP response of the directions route
  searchQuery,   \* DiscoverPage's searchQuery state
  isLoading,     \* DiscoverPage's isLoading state
  shownPlaces,   \* DiscoverPage's places state
  searches       \* the handleSearch calls made, in order: [query, state, places]

searchVars ==
  << request, pc, args, fetched, scrapePromises, completion, allPlaces, uniquePlaces, response >>
enhancerVars == << apiKey, model, enhPc, batch, promises, modelCalls, enhancedPlaces >>
directionsVars == << dirRequest, generated, dirResponse >>
discoverVars == << searchQuery, isLoading, shownPlaces, searches >>
otherVars == << enhancerVars, directionsVars, discoverVars >>
vars == << searchVars, enhancerVars, directionsVars, discoverVars >>

\* A request: body is "json", "malformed" or, for a GET, "none"; query, page
\* and page_size are what the body or the URL carries.
Request(method, body, query, page, page_size) ==
  [method |-> method, body |-> body, query |-> query, page |-> page, page_size |-> page_size]
NoRequest == Request("", "none", Undefined, Undefined, Undefined)

NoArgs == [query |-> "", page |-> 0, pageSize |-> 0]
NoBody ==
  [places |-> << >>, total |-> 0, page |-> 0, page_size |-> 0,
   total_pages |-> Undefined, query |-> "", error |-> ""]
NoResponse == [status |-> 0, body |-> NoBody]
ErrorResponse(status, msg) == [status |-> status, body |-> [NoBody EXCEPT !.error = msg]]

\* A directions request: the coordinates and the mode its body or URL carries.
DirRequest(method, body, origin_lat, origin_lng, destination_lat, destination_lng, dest_lat, dest_lng, mode) ==
  [method |-> method, body |-> body, origin_lat |-> origin_lat, origin_lng |-> origin_lng,
   destination_lat |-> destination_lat, destination_lng |-> destination_lng,
   dest_lat |-> dest_lat, dest_lng |-> dest_lng, mode |-> mode]
NoDirRequest ==
  DirRequest("", "none", Undefined, Undefined, Undefined, Undefined, Undefined,
             Undefined, Undefined)
NoDirections ==
  [steps |-> << >>, total_distance |-> << >>, total_duration |-> << >>, mode |-> "",
   error |-> ""]
NoDirResponse == [status |-> 0, body |-> NoDirections]
DirError(status, msg) == [status |-> status, body |-> [NoDirections EXCEPT !.error = msg]]

\* ------------------------------------------------------ scrapeBlogSource

\* The place pushed for container number index (0-based) of source s.
PlaceOf(s, index, item) ==
  [id |-> << BLOG_SOURCES[s].lower, index >>,
   name |-> item.title,
   address |-> item.description,
   source |-> BLOG_SOURCES[s].name]

\* The body of the each() callback: an item whose extraction throws is
\* logged and left out; one without a title or a description is left out.
ItemPushed(item) ==
  /\ ~item.raises
  /\ item.title # NoText
  /\ item.description # ""

\* The each() loop with one try around the whole loop: the first item that
\* throws ends the extraction.
RECURSIVE ExtractFromUntilThrow(_, _, _)
ExtractFromUntilThrow(s, items, index) ==
  IF items = << >> \/ Head(items).raises THEN << >>
  ELSE LET rest == ExtractFromUntilThrow(s, Tail(items), index + 1)
       IN IF ItemPushed(Head(items))
          THEN << PlaceOf(s, index, Head(items)) >> \o rest
          ELSE rest

RECURSIVE ExtractFrom(_, _, _)
ExtractFrom(s, items, index) ==
  IF items = << >> THEN << >>
  ELSE LET rest == ExtractFrom(s, Tail(items), index + 1)
       IN IF ItemPushed(Head(items))
          THEN << PlaceOf(s, index, Head(items)) >> \o rest
          ELSE rest

\* A promise of a list of places.
Pending == [state |-> "pending", value |-> << >>]
Fulfilled(v) == [state |-> "fulfilled", value |-> v]
Rejected == [state |-> "rejected", value |-> << >>]

\* scrapeBlogSource without its outer try/catch: a failed fetch or load
\* rejects the promise.
ScrapeResultUncaught(s, f) ==
  IF f.kind = "ok" THEN Fulfilled(ExtractFrom(s, f.items, 0)) ELSE Rejected

\* scrapeBlogSource whose fetch has no timeout and whose failure is not
\* caught in time: on a failed fetch the promise stays pending.
ScrapeResultNeverSettles(s, f) ==
  IF f.kind = "ok" THEN Fulfilled(ExtractFrom(s, f.items, 0)) ELSE Pending

\* scrapeBlogSource's promise once the fetch has settled: the outer catch
\* turns a failed fetch or load into [].
ScrapeResult(s, f) ==
  IF f.kind = "ok" THEN Fulfilled(ExtractFrom(s, f.items, 0)) ELSE Fulfilled(<< >>)

\* The sources whose scrapeBlogSource promise has settled.
Settled == { s \in Sources : scrapePromises[s].state # "pending" }

\* ---------------------------------------------------------- searchPlaces

\* findIndex comparing the names as they are, without toLowerCase().
FindIndexCaseSensitive(self, name) ==
  LET hits == { i \in DOMAIN self : self[i].name = name }
  IN IF hits = {} THEN 0 ELSE CHOOSE i \in hits : \A j \in hits : i <= j

\* self.findIndex(p => p.name.toLowerCase() === name.toLowerCase()), 1-based,
\* 0 when there is none.
FindIndex(self, name) ==
  LET hits == { i \in DOMAIN self : ToLowerCase(self[i].name) = ToLowerCase(name) }
  IN IF hits = {} THEN 0 ELSE CHOOSE i \in hits : \A j \in hits : i <= j

RECURSIVE FilterFrom(_, _)
FilterFrom(self, index) ==
  IF index > Len(self) THEN << >>
  ELSE IF index = FindIndex(self, self[index].name)
       THEN << self[index] >> \o FilterFrom(self, index + 1)
       ELSE FilterFrom(self, index + 1)

Deduplicate(places) == FilterFrom(places, 1)

\* The start index taken from page instead of page - 1.
StartIndexFromPage(page, pageSize) == page * pageSize

StartIndex(page, pageSize) == (page - 1) * pageSize
\* An end index one too far: consecutive pages overlap.
EndIndexInclusive(page, pageSize) == StartIndex(page, pageSize) + pageSize + 1
EndIndex(page, pageSize) == StartIndex(page, pageSize) + pageSize

Paginate(places, page, pageSize) ==
  Slice(places, StartIndex(page, pageSize), EndIndex(page, pageSize))

TotalPages(places, pageSize) == CeilDiv(Len(places), pageSize)

SearchResponse(places, a) ==
  [places |-> Paginate(places, a.page, a.pageSize),
   total |-> Len(places),
   page |-> a.page,
   page_size |-> a.pageSize,
   total_pages |-> TotalPages(places, a.pageSize),
   query |-> a.query]

\* NextResponse.json(results): status 200 and the serialised envelope.
OkResponse(r) ==
  [status |-> 200,
   body |-> [places |-> r.places, total |-> r.total, page |-> r.page,
             page_size |-> r.page_size,
             total_pages |-> JsonNumber(r.total_pages),
             query |-> r.query, error |-> ""]]

\* ------------------------------------------------------------- actions

Init ==
  /\ request = NoRequest
  /\ pc = "idle"
  /\ args = NoArgs
  /\ fetched = [s \in Sources |-> NotFetched]
  /\ scrapePromises = [s \in Sources |-> Pending]
  /\ completion = << >>
  /\ allPlaces = << >>
  /\ uniquePlaces = << >>
  /\ response = NoResponse
  /\ apiKey = FALSE
  /\ model = "unloaded"
  /\ enhPc = "idle"
  /\ batch = << >>
  /\ promises = << >>
  /\ modelCalls = 0
  /\ enhancedPlaces = << >>
  /\ dirRequest = NoDirRequest
  /\ generated = Undefined
  /\ dirResponse = NoDirResponse
  /\ searchQuery = << >>
  /\ isLoading = FALSE
  /\ shownPlaces = << >>
  /\ searches = << >>

\* searchPlaces up to its await: every scrapeBlogSource call is started.
StartSearch(req, query, page, pageSize) ==
  /\ request' = req
  /\ pc' = "scraping"
  /\ args' = [query |-> query, page |-> page, pageSize |-> pageSize]
  /\ UNCHANGED << fetched, scrapePromises, completion, allPlaces, uniquePlaces, response >>
  /\ UNCHANGED otherVars

\* !query taken for query === undefined: an empty query passes.
QueryMissingUndefinedOnly(query) == query = Undefined

\* !query: the body has no query, or an empty one.
QueryMissing(query) == OrDefault(query, "") = ""

\* POST: the body's query, and page and page_size with their defaults.
Post(in) ==
  /\ pc = "idle"
  /\ \E query \in { Undefined, Some(""), Some("coffee") },
        page \in { Undefined } \cup { Some(p) : p \in in.pages },
        page_size \in { Undefined } \cup { Some(p) : p \in in.sizes } :
       LET req == Request("POST", "json", query, page, page_size)
       IN IF QueryMissing(query)
          THEN /\ request' = req
               /\ pc' = "done"
               /\ response' = ErrorResponse(400, "Query parameter is required")
               /\ UNCHANGED << args, fetched, scrapePromises, completion, allPlaces, uniquePlaces >>
               /\ UNCHANGED otherVars
          ELSE StartSearch(req, query[1], OrDefault(page, DefaultPage),
                           OrDefault(page_size, PostDefaultPageSize))

\* POST with a body that request.json() rejects: the handler's catch.
PostMalformed ==
  /\ pc = "idle"
  /\ request' = Request("POST", "malformed", Undefined, Undefined, Undefined)
  /\ pc' = "done"
  /\ response' = ErrorResponse(500, "Internal server error")
  /\ UNCHANGED << args, fetched, scrapePromises, completion, allPlaces, uniquePlaces >>
  /\ UNCHANGED otherVars

\* GET: q, page and page_size are text or absent; x || d takes d for an
\* absent and for an empty parameter.
Get(in) ==
  /\ pc = "idle"
  /\ \E q \in in.queries,
        page \in { Undefined } \cup { Some(IntText(p)) : p \in in.pages },
        page_size \in { Undefined } \cup { Some(IntText(p)) : p \in in.sizes } :
       StartSearch(Request("GET", "none", q, page, page_size),
                   IF OrDefault(q, "") = "" THEN "coffee shops" ELSE q[1],
                   ParseInt(OrDefault(page, IntText(DefaultPage))),
                   ParseInt(OrDefault(page_size, IntText(GetDefaultPageSize))))

\* The containers fetched so far, all sources together.
ItemsFetched == Len(Flat([t \in Sources |-> fetched[t].items]))

\* The network call of source s settles, and scrapeBlogSource with it: the
\* fetch fails, or gives a page whose containers still fit MaxItems. Where
\* the inputs ask for it, the order of completion is recorded.
Settle(in, s) ==
  /\ pc = "scraping"
  /\ s \notin Settled
  /\ \E f \in { Fetched(k, << >>) : k \in in.failures }
               \cup { Fetched("ok", d) : d \in SeqsUpTo(in.items, MaxItems - ItemsFetched) } :
       /\ fetched' = [fetched EXCEPT ![s] = f]
       /\ scrapePromises' = [scrapePromises EXCEPT ![s] = ScrapeResult(s, f)]
  /\ completion' =
       IF in.ordered /\ scrapePromises'[s].state # "pending"
       THEN Append(completion, s) ELSE completion
  /\ UNCHANGED << request, pc, args, allPlaces, uniquePlaces, response >>
  /\ UNCHANGED otherVars

\* The values of the promises in the order they settled.
PromiseAllValuesByCompletion ==
  [k \in DOMAIN completion |-> scrapePromises[completion[k]].value]

\* What Promise.all resolves with: the promises' values in the order of the
\* promises, which sources.map gives in registration order.
PromiseAllValues == [s \in Sources |-> scrapePromises[s].value]

\* Promise.all has settled. Resolved: flatten, deduplicate, paginate, respond.
\* Rejected (by the first promise that rejects): searchPlaces rejects and the
\* handler's catch answers 500.
Aggregate ==
  /\ pc = "scraping"
  /\ \/ Settled = Sources
     \/ \E s \in Sources : scrapePromises[s].state = "rejected"
  /\ IF \E s \in Sources : scrapePromises[s].state = "rejected"
     THEN /\ response' = ErrorResponse(500, "Internal server error")
          /\ UNCHANGED << allPlaces, uniquePlaces >>
     ELSE /\ allPlaces' = Flat(PromiseAllValues)
          /\ uniquePlaces' = Deduplicate(allPlaces')
          /\ response' = OkResponse(SearchResponse(uniquePlaces', args))
  /\ pc' = "done"
  /\ UNCHANGED << request, args, fetched, scrapePromises, completion >>
  /\ UNCHANGED otherVars

SearchNext(in) ==
  \/ Post(in)
  \/ PostMalformed
  \/ Get(in)
  \/ \E s \in Sources : Settle(in, s)
  \/ Aggregate

\* ------------------------------------------------------------ AIService

\* A value of the model's JSON output: a number n, a string s of n
\* characters, or an array xs of strings.
NumberValue(n) == [type |-> "number", n |-> n, s |-> "", xs |-> << >>]
StringValue(s, len) == [type |-> "string", n |-> len, s |-> s, xs |-> << >>]
ArrayValue(xs) == [type |-> "array", n |-> 0, s |-> "", xs |-> xs]
NullValue == [type |-> "null", n |-> 0, s |-> "", xs |-> << >>]

\* value.length of a string or an array.
Length(v) == IF v.type = "string" THEN v.n ELSE Len(v.xs)

\* x || d on an optional value: undefined, null, 0 and "" are falsy.
Falsy(v) ==
  \/ v.type = "null"
  \/ v.type = "number" /\ v.n = 0
  \/ v.type = "string" /\ v.n = 0

OrElse(opt, d) == IF opt = Undefined \/ Falsy(opt[1]) THEN d ELSE opt[1]

\* The model's text, token by token: prose without braces, "{", "}", and a
\* "key": value member.
Token(t) == [t |-> t, key |-> "", val |-> NullValue]
Prose == Token("prose")
Open == Token("{")
Close == Token("}")
Member(k, v) == [t |-> "member", key |-> k, val |-> v]

\* response.match(/\{[\s\S]*\}/): from the first "{" to the last "}".
JsonMatch(text) ==
  LET opens == { i \in DOMAIN text : text[i].t = "{" }
      closes == { i \in DOMAIN text : text[i].t = "}" }
      first == CHOOSE i \in opens : \A j \in opens : i <= j
      last == CHOOSE i \in closes : \A j \in closes : j <= i
  IN IF opens = {} \/ closes = {} THEN Undefined
     ELSE IF last < first THEN Undefined
     ELSE Some(SubSeq(text, first, last))

\* JSON.parse accepts "{" members "}" and throws on anything else.
JsonParses(m) == \A i \in 2 .. Len(m) - 1 : m[i].t = "member"

\* parsed[key]: the last member with that key, or undefined.
Field(m, key) ==
  LET hits == { i \in DOMAIN m : m[i].t = "member" /\ m[i].key = key }
  IN IF hits = {} THEN Undefined
     ELSE Some(m[CHOOSE i \in hits : \A j \in hits : j <= i].val)

FallbackRecommendation ==
  [confidence |-> NumberValue(70),
   reasoning |-> StringValue("AI analysis provided based on available information", 51),
   personalized_notes |-> StringValue("This place matches your search criteria", 39),
   best_for |-> ArrayValue(<< "General visit", "Local experience" >>),
   avoid_if |-> ArrayValue(<< "No specific concerns" >>),
   best_time_to_visit |-> StringValue("Anytime", 7),
   local_tips |-> ArrayValue(<< "Check current hours", "Consider making reservations" >>)]

FilledRecommendation(m) ==
  [confidence |-> OrElse(Field(m, "confidence"), NumberValue(75)),
   reasoning |-> OrElse(Field(m, "reasoning"), StringValue("AI analysis available", 21)),
   personalized_notes |->
     OrElse(Field(m, "personalized_notes"), StringValue("Personalized insights provided", 30)),
   best_for |-> OrElse(Field(m, "best_for"), ArrayValue(<< "General visit" >>)),
   avoid_if |-> OrElse(Field(m, "avoid_if"), ArrayValue(<< "No specific concerns" >>)),
   best_time_to_visit |-> OrElse(Field(m, "best_time_to_visit"), StringValue("Anytime", 7)),
   local_tips |-> OrElse(Field(m, "local_tips"), ArrayValue(<< "Check current hours" >>))]

\* parseAIResponse giving the per-field defaults where the fallback is due.
ParseAIResponseFieldDefaults(text) ==
  LET m == JsonMatch(text)
  IN IF m # Undefined /\ JsonParses(m[1])
     THEN FilledRecommendation(m[1])
     ELSE FilledRecommendation(<< >>)

\* parseAIResponse: no match, or a match JSON.parse throws on, gives the
\* fallback.
ParseAIResponse(text) ==
  LET m == JsonMatch(text)
  IN IF m # Undefined /\ JsonParses(m[1])
     THEN FilledRecommendation(m[1])
     ELSE FallbackRecommendation

\* The rank taken to be the raw confidence.
CalculateAIRankByConfidence(rec) == rec.confidence.n

\* calculateAIRank in exact arithmetic: Math.round of
\* (4 * confidence + 3 * min(length, 100) + 60 * min(tips, 5)) / 10.
CalculateAIRank(rec) ==
  LET tenths == 4 * rec.confidence.n + 3 * Min(Length(rec.reasoning), 100)
                  + 60 * Min(Length(rec.local_tips), 5)
  IN (tenths + 5) \div 10

\* { ...place, ai_confidence: 0, ai_rank: 0 }
Unenhanced(place) == [ai_confidence |-> 0, ai_rank |-> 0] @@ place

\* { ...place, ai_recommendation, ai_confidence, ai_rank }
Enhanced(place, rec) ==
  [ai_recommendation |-> rec,
   ai_confidence |-> rec.confidence.n,
   ai_rank |-> CalculateAIRank(rec)] @@ place

\* An enhancePlace promise: awaiting the model, resolved with a value, or
\* rejected. outcome and text record what the model call did.
Awaiting == [state |-> "awaiting", outcome |-> "pending", text |-> << >>, value |-> Undefined]
Resolved(outcome, text, v) ==
  [state |-> "resolved", outcome |-> outcome, text |-> text, value |-> Some(v)]

\* enhancePlace deciding on this.model alone, without reading the
\* credential again.
EnhancePlaceCallByModel(place) ==
  IF model # "initialised" THEN Resolved("no_key", << >>, Unenhanced(place))
  ELSE Awaiting

\* enhancePlace with its checks outside the try: a model that was never
\* initialised rejects the promise.
EnhancePlaceCallUncaught(place) ==
  IF ~apiKey THEN Resolved("no_key", << >>, Unenhanced(place))
  ELSE IF model # "initialised"
       THEN [state |-> "rejected", outcome |-> "not_initialised", text |-> << >>,
             value |-> Undefined]
       ELSE Awaiting

\* enhancePlace up to its first await.
EnhancePlaceCall(place) ==
  IF ~apiKey THEN Resolved("no_key", << >>, Unenhanced(place))
  ELSE IF model # "initialised" THEN Resolved("not_initialised", << >>, Unenhanced(place))
  ELSE Awaiting

\* enhancePlace without its try/catch: a rejected model call rejects it.
EnhancePlaceResultUncaught(place, outcome, text) ==
  IF outcome = "rejected"
  THEN [state |-> "rejected", outcome |-> "rejected", text |-> << >>, value |-> Undefined]
  ELSE Resolved("responded", text, Enhanced(place, ParseAIResponse(text)))

\* enhancePlace answering a rejected model call with the fallback
\* recommendation instead of confidence 0 and rank 0.
EnhancePlaceResultFallback(place, outcome, text) ==
  IF outcome = "rejected"
  THEN Resolved("rejected", << >>, Enhanced(place, FallbackRecommendation))
  ELSE Resolved("responded", text, Enhanced(place, ParseAIResponse(text)))

\* enhancePlace from the model's answer on: a rejected call is caught.
EnhancePlaceResult(place, outcome, text) ==
  IF outcome = "rejected" THEN Resolved("rejected", << >>, Unenhanced(place))
  ELSE Resolved("responded", text, Enhanced(place, ParseAIResponse(text)))

\* An insertion that puts x before the places of its own rank.
RECURSIVE InsertByRankUnstable(_, _)
InsertByRankUnstable(sorted, x) ==
  IF sorted = << >> THEN << x >>
  ELSE IF Head(sorted).ai_rank > x.ai_rank
       THEN << Head(sorted) >> \o InsertByRankUnstable(Tail(sorted), x)
       ELSE << x >> \o sorted

\* sort((a, b) => (b.ai_rank || 0) - (a.ai_rank || 0)); Array.prototype.sort
\* is stable.
RECURSIVE InsertByRank(_, _)
InsertByRank(sorted, x) ==
  IF sorted = << >> THEN << x >>
  ELSE IF Head(sorted).ai_rank >= x.ai_rank
       THEN << Head(sorted) >> \o InsertByRank(Tail(sorted), x)
       ELSE << x >> \o sorted

RECURSIVE SortByRank(_)
SortByRank(s) ==
  IF s = << >> THEN << >>
  ELSE InsertByRank(SortByRank(SubSeq(s, 1, Len(s) - 1)), s[Len(s)])

\* The places a batch is drawn from, and the texts the model may answer.
PlacePool ==
  { PlaceOf(1, 0, Item(CafeX, "about", FALSE)),
    PlaceOf(2, 0, Item(CafeY, "about", FALSE)),
    PlaceOf(3, 1, Item(cafex, "about", FALSE)) }

LongReasoning == StringValue("long", 120)
ShortReasoning == StringValue("short", 20)
FiveTips == ArrayValue(<< "t1", "t2", "t3", "t4", "t5" >>)
ConfidentAnswer ==
  << Prose, Open, Member("confidence", NumberValue(90)),
     Member("reasoning", ShortReasoning), Close, Prose >>
ThoroughAnswer ==
  << Open, Member("confidence", NumberValue(70)),
     Member("reasoning", LongReasoning), Member("local_tips", FiveTips), Close >>
ConfidentAnswerWithTips ==
  << Open, Member("confidence", NumberValue(90)),
     Member("reasoning", ShortReasoning), Member("local_tips", FiveTips), Close >>
ModelTexts ==
  { << >>,
    << Prose >>,
    << Open, Close >>,
    << Open, Prose, Close >>,
    ConfidentAnswer,
    ThoroughAnswer,
    ConfidentAnswerWithTips,
    << Open, Member("confidence", NumberValue(0)), Close >>,
    << Open, Member("confidence", NumberValue(150)), Close >>,
    << Open, Member("confidence", NumberValue(90)), Close, Prose, Open, Close >> }

\* The module is loaded: the singleton is constructed under the environment
\* of that moment.
Construct ==
  /\ model = "unloaded"
  /\ \E key \in BOOLEAN :
       /\ apiKey' = key
       /\ model' = IF key THEN "initialised" ELSE "undefined"
  /\ UNCHANGED << enhPc, batch, promises, modelCalls, enhancedPlaces >>
  /\ UNCHANGED << searchVars, directionsVars, discoverVars >>

\* The environment variable is set or unset while no batch runs.
SetApiKey ==
  /\ model # "unloaded"
  /\ enhPc = "idle"
  /\ apiKey' = ~apiKey
  /\ UNCHANGED << model, enhPc, batch, promises, modelCalls, enhancedPlaces >>
  /\ UNCHANGED << searchVars, directionsVars, discoverVars >>

\* enhancePlaces up to its await: places.map calls enhancePlace for each.
EnhancePlaces ==
  /\ model # "unloaded"
  /\ enhPc = "idle"
  /\ \E places \in SeqsUpTo(PlacePool, MaxPlaces) :
       /\ batch' = places
       /\ promises' = [i \in DOMAIN places |-> EnhancePlaceCall(places[i])]
  /\ modelCalls' =
       modelCalls + Cardinality({ i \in DOMAIN promises' : promises'[i].state = "awaiting" })
  /\ enhPc' = "awaiting"
  /\ UNCHANGED << apiKey, model, enhancedPlaces >>
  /\ UNCHANGED << searchVars, directionsVars, discoverVars >>

\* The model call for place i settles: it rejects, or answers with a text.
ModelSettles(i) ==
  /\ enhPc = "awaiting"
  /\ i \in DOMAIN promises
  /\ promises[i].state = "awaiting"
  /\ \E o \in { [outcome |-> "rejected", text |-> << >>] }
               \cup { [outcome |-> "responded", text |-> x] : x \in ModelTexts } :
       promises' = [promises EXCEPT ![i] = EnhancePlaceResult(batch[i], o.outcome, o.text)]
  /\ UNCHANGED << apiKey, model, enhPc, batch, modelCalls, enhancedPlaces >>
  /\ UNCHANGED << searchVars, directionsVars, discoverVars >>

\* Promise.all has settled. Resolved: sort by rank and resolve. Rejected (by
\* the first promise that rejects): enhancePlaces rejects.
FinishEnhance ==
  /\ enhPc = "awaiting"
  /\ \/ \A i \in DOMAIN promises : promises[i].state = "resolved"
     \/ \E i \in DOMAIN promises : promises[i].state = "rejected"
  /\ IF \E i \in DOMAIN promises : promises[i].state = "rejected"
     THEN /\ enhPc' = "rejected"
          /\ UNCHANGED enhancedPlaces
     ELSE /\ enhPc' = "done"
          /\ enhancedPlaces' = SortByRank([i \in DOMAIN promises |-> promises[i].value[1]])
  /\ UNCHANGED << apiKey, model, batch, promises, modelCalls >>
  /\ UNCHANGED << searchVars, directionsVars, discoverVars >>

\* ----------------------------------------------------------- directions

\* Text is a sequence of characters. Coordinates are in 1/10000 of a degree,
\* distances in 1/1000 of a mile, formatted distances in 1/10 of a mile.
IsDigit(c) == c \in { "0", "1", "2", "3", "4", "5", "6", "7", "8", "9" }

RECURSIVE TakeDigits(_)
TakeDigits(text) ==
  IF text = << >> \/ ~IsDigit(Head(text)) THEN << >>
  ELSE << Head(text) >> \o TakeDigits(Tail(text))

RECURSIVE Pow10(_)
Pow10(n) == IF n = 0 THEN 1 ELSE 10 * Pow10(n - 1)

\* parseFloat of a text that starts with a decimal number of at most places
\* fractional digits, in units of 10^-places; what follows the number is
\* ignored.
ParseFloat(text, places) ==
  LET neg == text # << >> /\ Head(text) = "-"
      unsigned == IF neg THEN Tail(text) ELSE text
      whole == TakeDigits(unsigned)
      rest == SubSeq(unsigned, Len(whole) + 1, Len(unsigned))
      frac == IF rest # << >> /\ Head(rest) = "." THEN TakeDigits(Tail(rest)) ELSE << >>
      magnitude == DigitsValue(whole, 0) * Pow10(places)
                     + DigitsValue(frac, 0) * Pow10(places - Len(frac))
  IN IF neg THEN -magnitude ELSE magnitude

\* The decimal text of a natural number.
RECURSIVE Digits(_)
Digits(n) ==
  IF n < 10 THEN << DigitChar(n) >> ELSE Digits(n \div 10) \o << DigitChar(n % 10) >>

\* The text of a coordinate, with its four decimals.
CoordText(n) ==
  LET m == IF n < 0 THEN -n ELSE n
      f == m % 10000
  IN (IF n < 0 THEN << "-" >> ELSE << >>) \o Digits(m \div 10000) \o << "." >>
       \o << DigitChar(f \div 1000), DigitChar((f \div 100) % 10),
             DigitChar((f \div 10) % 10), DigitChar(f % 10) >>

\* The sign of (the double nearest to tenths / 10) - tenths / 10: 0.5 and 1.5
\* are doubles, the doubles of 0.3 and 1.2 are below them, the double of 0.1
\* is above it.
ReprError(tenths) ==
  CASE tenths = 1 -> 1
    [] tenths = 3 -> -1
    [] tenths = 12 -> -1
    [] OTHER -> 0

\* Math.round(num / den) for num >= 0 and den > 0.
Round(num, den) == (2 * num + den) \div (2 * den)

\* The integer n that (x).toFixed(1) prints as n / 10, for x the double of
\* num / den whose error has the sign err: of two equally near n the larger
\* one, which an x below num / den does not reach.
ToFixed1(num, den, err) ==
  IF (2 * num) % (2 * den) = den /\ err < 0 THEN num \div den ELSE Round(num, den)

\* `${n.toFixed(1)} mi`
FormatMiles(tenths) ==
  Digits(tenths \div 10) \o << ".", DigitChar(tenths % 10), " ", "m", "i" >>

Mi(text) == text \o << " ", "m", "i" >>
Minutes(text) == text \o << " ", "m", "i", "n" >>

Step(instruction, distance, duration) ==
  [instruction |-> instruction, distance |-> distance, duration |-> duration]

Template(steps, total_distance, total_duration, mode) ==
  [steps |-> steps, total_distance |-> total_distance,
   total_duration |-> total_duration, mode |-> mode]

MOCK_DIRECTIONS ==
  [default |->
     Template(<< Step("Head north on Main St", Mi(<< "0", ".", "5" >>), Minutes(<< "2" >>)),
                 Step("Turn right onto Market St", Mi(<< "1", ".", "2" >>), Minutes(<< "5" >>)),
                 Step("Turn left onto Destination St", Mi(<< "0", ".", "3" >>), Minutes(<< "1" >>)) >>,
              Mi(<< "2", ".", "0" >>), Minutes(<< "8" >>), "driving"),
   walking |->
     Template(<< Step("Start walking north on Main St", Mi(<< "0", ".", "5" >>), Minutes(<< "1", "0" >>)),
                 Step("Turn right onto Market St", Mi(<< "1", ".", "2" >>), Minutes(<< "2", "4" >>)),
                 Step("Turn left onto Destination St", Mi(<< "0", ".", "3" >>), Minutes(<< "6" >>)) >>,
              Mi(<< "2", ".", "0" >>), Minutes(<< "4", "0" >>), "walking"),
   transit |->
     Template(<< Step("Walk to Main St Station (2 min)", Mi(<< "0", ".", "1" >>), Minutes(<< "2" >>)),
                 Step("Take Metro Line 1 towards Downtown", Mi(<< "1", ".", "5" >>), Minutes(<< "8" >>)),
                 Step("Transfer to Bus 15 at Market St", Mi(<< "0", ".", "3" >>), Minutes(<< "5" >>)),
                 Step("Walk to destination", Mi(<< "0", ".", "1" >>), Minutes(<< "2" >>)) >>,
              Mi(<< "2", ".", "0" >>), Minutes(<< "1", "7" >>), "transit")]

\* Keys that MOCK_DIRECTIONS inherits from Object.prototype: the lookup gives
\* a function, which is truthy and has no steps.
InheritedKeys == { "toString", "constructor" }

\* The points requests are drawn from.
Latitudes == { 377749, 377849, 378126, 378183, 378328, 380644 }
Longitudes == { -1224194, -1224094 }

\* calculateDistance over those points, as the source's formula gives it in
\* doubles, to the nearest 1/1000 mile: << lower latitude, higher latitude,
\* |lng2 - lng1|, distance >>. The formula is symmetric in the two points
\* and even in the difference of the longitudes.
HaversineMiles ==
  {
     << 377749, 377749, 0, 0 >>, << 377749, 377749, 100, 546 >>, << 377749, 377849, 0, 691 >>,
     << 377749, 377849, 100, 881 >>, << 377749, 378126, 0, 2605 >>, << 377749, 378126, 100, 2662 >>,
     << 377749, 378183, 0, 2999 >>, << 377749, 378183, 100, 3048 >>, << 377749, 378328, 0, 4001 >>,
     << 377749, 378328, 100, 4038 >>, << 377749, 380644, 0, 20004 >>, << 377749, 380644, 100, 20011 >>,
     << 377849, 377849, 0, 0 >>, << 377849, 377849, 100, 546 >>, << 377849, 378126, 0, 1914 >>,
     << 377849, 378126, 100, 1990 >>, << 377849, 378183, 0, 2308 >>, << 377849, 378183, 100, 2372 >>,
     << 377849, 378328, 0, 3310 >>, << 377849, 378328, 100, 3354 >>, << 377849, 380644, 0, 19313 >>,
     << 377849, 380644, 100, 19320 >>, << 378126, 378126, 0, 0 >>, << 378126, 378126, 100, 546 >>,
     << 378126, 378183, 0, 394 >>, << 378126, 378183, 100, 673 >>, << 378126, 378328, 0, 1396 >>,
     << 378126, 378328, 100, 1499 >>, << 378126, 380644, 0, 17399 >>, << 378126, 380644, 100, 17407 >>,
     << 378183, 378183, 0, 0 >>, << 378183, 378183, 100, 546 >>, << 378183, 378328, 0, 1002 >>,
     << 378183, 378328, 100, 1141 >>, << 378183, 380644, 0, 17005 >>, << 378183, 380644, 100, 17014 >>,
     << 378328, 378328, 0, 0 >>, << 378328, 378328, 100, 546 >>, << 378328, 380644, 0, 16003 >>,
     << 378328, 380644, 100, 16012 >>, << 380644, 380644, 0, 0 >>, << 380644, 380644, 100, 544 >> }

CalculateDistance(lat1, lng1, lat2, lng2) ==
  LET dLng == IF lng2 < lng1 THEN lng1 - lng2 ELSE lng2 - lng1
      row == CHOOSE r \in HaversineMiles :
               r[1] = Min(lat1, lat2) /\ r[2] = Max(lat1, lat2) /\ r[3] = dLng
  IN row[4]

\* adjustDuration formatting every duration as minutes, without hours.
AdjustDurationMinutesOnly(originalDuration, scale, den) ==
  Minutes(Digits(Round(DigitsValue(SelectSeq(originalDuration, IsDigit), 0) * scale, den)))

\* adjustDuration: the digits of the template's duration as a number, times
\* the scale factor scale / den, rounded and formatted.
AdjustDuration(originalDuration, scale, den) ==
  LET minutes == DigitsValue(SelectSeq(originalDuration, IsDigit), 0)
      adjustedMinutes == Round(minutes * scale, den)
      hours == adjustedMinutes \div 60
      remainingMinutes == adjustedMinutes % 60
  IN IF adjustedMinutes < 60 THEN Minutes(Digits(adjustedMinutes))
     ELSE IF remainingMinutes > 0
          THEN Digits(hours) \o << "h", " " >> \o Digits(remainingMinutes) \o << "m" >>
          ELSE Digits(hours) \o << "h" >>

\* A scale factor is kept as a multiple of 1 / ScaleUnit, so that
\* distance / 2.0 of a distance in 1/1000 mile is the distance itself.
ScaleUnit == 2000

\* The scale factor without its floor of 0.5.
ScaleFactorNoFloor(distance) == Min(2 * ScaleUnit, distance)

\* The scale factor without its ceiling of 2.0.
ScaleFactorNoCeiling(distance) == Max(ScaleUnit \div 2, distance)

\* Math.max(0.5, Math.min(2.0, distance / 2.0))
ScaleFactor(distance) == Max(ScaleUnit \div 2, Min(2 * ScaleUnit, distance))

\* MOCK_DIRECTIONS[mode] || MOCK_DIRECTIONS['default']
BaseDirections(mode) ==
  IF mode \in DOMAIN MOCK_DIRECTIONS THEN MOCK_DIRECTIONS[mode] ELSE MOCK_DIRECTIONS["default"]

\* generateDirections: the call with its locals, and what it returns; under a
\* mode of InheritedKeys baseDirections.steps is undefined and map throws.
GenerateDirections(originLat, originLng, destLat, destLng, mode) ==
  LET distance == CalculateDistance(originLat, originLng, destLat, destLng)
      baseDirections == BaseDirections(mode)
      scaleFactor == ScaleFactor(distance)
      adjusted(step) ==
        LET tenths == ParseFloat(step.distance, 1)
        IN Step(step.instruction,
                FormatMiles(ToFixed1(tenths * scaleFactor, ScaleUnit, ReprError(tenths))),
                AdjustDuration(step.duration, scaleFactor, ScaleUnit))
  IN [call |-> [originLat |-> originLat, originLng |-> originLng, destLat |-> destLat,
                destLng |-> destLng, mode |-> mode, distance |-> distance,
                scaleFactor |-> scaleFactor],
      threw |-> mode \in InheritedKeys,
      directions |->
        [steps |-> [i \in DOMAIN baseDirections.steps |-> adjusted(baseDirections.steps[i])],
         total_distance |-> FormatMiles(ToFixed1(distance * scaleFactor, 100 * ScaleUnit, 0)),
         total_duration |-> AdjustDuration(baseDirections.total_duration, scaleFactor, ScaleUnit),
         mode |-> mode,
         error |-> ""]]

\* The route's answer to a generateDirections call: the directions, or the
\* handler's catch.
DirectionsResponse(g) ==
  IF g.threw THEN DirError(500, "Internal server error")
  ELSE [status |-> 200, body |-> g.directions]

ValidModes == { "driving", "walking", "transit", "bicycling" }

\* What requests carry: a coordinate of a body is a number, one of a URL is
\* text, possibly empty; a mode is a string.
Modes == ValidModes \cup { "flying", "", "toString" }
BodyLatitudes == { Undefined } \cup { Some(x) : x \in Latitudes }
BodyLongitudes == { Undefined } \cup { Some(x) : x \in Longitudes }
UrlLatitudes == { Undefined, Some(<< >>) } \cup { Some(CoordText(x)) : x \in Latitudes }
UrlLongitudes == { Undefined, Some(<< >>) } \cup { Some(CoordText(x)) : x \in Longitudes }
OptionalModes == { Undefined } \cup { Some(m) : m \in Modes }

\* searchParams.get(name) || d
ParamOr(param, d) == IF param = Undefined \/ param[1] = << >> THEN d ELSE param[1]

\* POST: the coordinates are checked, then the mode, then the directions are
\* generated.
DirectionsPost ==
  /\ dirResponse = NoDirResponse
  /\ \E origin_lat \in BodyLatitudes, origin_lng \in BodyLongitudes,
        destination_lat \in BodyLatitudes, destination_lng \in BodyLongitudes,
        m \in OptionalModes :
       LET mode == OrDefault(m, "driving")
           g == GenerateDirections(origin_lat[1], origin_lng[1],
                                   destination_lat[1], destination_lng[1], mode)
       IN /\ dirRequest' = DirRequest("POST", "json", origin_lat, origin_lng,
                                      destination_lat, destination_lng,
                                      Undefined, Undefined, m)
          /\ IF Undefined \in { origin_lat, origin_lng, destination_lat, destination_lng }
             THEN /\ dirResponse' =
                       DirError(400, "Origin and destination coordinates are required")
                  /\ generated' = Undefined
             ELSE IF mode \notin ValidModes
             THEN /\ dirResponse' =
                       DirError(400, "Invalid mode. Must be one of: driving, walking, transit, bicycling")
                  /\ generated' = Undefined
             ELSE /\ dirResponse' = DirectionsResponse(g)
                  /\ generated' = Some(g.call)
  /\ UNCHANGED << searchVars, enhancerVars, discoverVars >>

\* POST with a body that request.json() rejects: the handler's catch.
DirectionsPostMalformed ==
  /\ dirResponse = NoDirResponse
  /\ dirRequest' = DirRequest("POST", "malformed", Undefined, Undefined, Undefined,
                              Undefined, Undefined, Undefined, Undefined)
  /\ dirResponse' = DirError(500, "Internal server error")
  /\ generated' = Undefined
  /\ UNCHANGED << searchVars, enhancerVars, discoverVars >>

\* GET: origin_lat, origin_lng, dest_lat, dest_lng and mode are read from the
\* URL with their defaults; destination_lat and destination_lng are not read.
DirectionsGet ==
  /\ dirResponse = NoDirResponse
  /\ \E origin_lat \in UrlLatitudes, origin_lng \in UrlLongitudes,
        dest_lat \in UrlLatitudes, dest_lng \in UrlLongitudes,
        destination \in { << Undefined, Undefined >>,
                          << Some(CoordText(378328)), Some(CoordText(-1224194)) >> },
        m \in OptionalModes :
       LET originLat == ParseFloat(ParamOr(origin_lat, CoordText(377749)), 4)
           originLng == ParseFloat(ParamOr(origin_lng, CoordText(-1224194)), 4)
           destLat == ParseFloat(ParamOr(dest_lat, CoordText(377849)), 4)
           destLng == ParseFloat(ParamOr(dest_lng, CoordText(-1224094)), 4)
           mode == IF OrDefault(m, "") = "" THEN "driving" ELSE m[1]
           g == GenerateDirections(originLat, originLng, destLat, destLng, mode)
       IN /\ dirRequest' = DirRequest("GET", "none", origin_lat, origin_lng,
                                      destination[1], destination[2], dest_lat, dest_lng, m)
          /\ dirResponse' = DirectionsResponse(g)
          /\ generated' = Some(g.call)
  /\ UNCHANGED << searchVars, enhancerVars, discoverVars >>

\* ------------------------------------------------- the discover page

\* How many searches the page issues.
MaxSearches == 3

\* String.prototype.trim of a text of letters and spaces.
RECURSIVE TrimStart(_)
TrimStart(text) ==
  IF text # << >> /\ Head(text) = " " THEN TrimStart(Tail(text)) ELSE text

RECURSIVE TrimEnd(_)
TrimEnd(text) ==
  IF text # << >> /\ text[Len(text)] = " "
  THEN TrimEnd(SubSeq(text, 1, Len(text) - 1))
  ELSE text

Trim(text) == TrimEnd(TrimStart(text))

\* What the input box may hold, and what a search request may be answered
\* with: a list of places, or a failure (a response that is not ok, or a
\* network error).
TypedQueries == { << >>, << " " >>, << "c" >>, << " ", "b" >> }
PlaceLists == { << >>, << CafeX >>, << CafeY >> }
SearchOutcomes ==
  { [ok |-> TRUE, places |-> l] : l \in PlaceLists } \cup { [ok |-> FALSE, places |-> << >>] }

\* The input's onChange.
SetSearchQuery(q) ==
  /\ q # searchQuery
  /\ searchQuery' = q
  /\ UNCHANGED << isLoading, shownPlaces, searches >>
  /\ UNCHANGED << searchVars, enhancerVars, directionsVars >>

\* handleSearch up to its await: with a query that is not blank, isLoading
\* is set and the request is sent.
HandleSearch ==
  /\ Len(searches) < MaxSearches
  /\ IF Trim(searchQuery) # << >>
     THEN /\ isLoading' = TRUE
          /\ searches' = Append(searches, [query |-> searchQuery, state |-> "pending",
                                            places |-> << >>])
     ELSE UNCHANGED << isLoading, searches >>
  /\ UNCHANGED << searchQuery, shownPlaces >>
  /\ UNCHANGED << searchVars, enhancerVars, directionsVars >>

\* The input's onKeyPress: Enter calls handleSearch, whatever isLoading is.
Keys == { "Enter", "a" }
OnKeyPress(key) ==
  IF key = "Enter" THEN HandleSearch ELSE UNCHANGED vars

\* The Search button calls handleSearch; it is disabled while isLoading.
ClickSearch == ~isLoading /\ HandleSearch

\* handleSearch after its await: a response sets places, a failure is
\* logged, and either way isLoading is cleared.
SearchSettles(k, outcome) ==
  /\ k \in DOMAIN searches
  /\ searches[k].state = "pending"
  /\ IF outcome.ok
     THEN /\ shownPlaces' = outcome.places
          /\ searches' = [searches EXCEPT ![k].state = "fulfilled",
                                          ![k].places = outcome.places]
     ELSE /\ UNCHANGED shownPlaces
          /\ searches' = [searches EXCEPT ![k].state = "rejected"]
  /\ isLoading' = FALSE
  /\ UNCHANGED searchQuery
  /\ UNCHANGED << searchVars, enhancerVars, directionsVars >>

\* Searches without paging parameters over pages of every kind of container.
Next == SearchNext(ScrapeInputs)
Spec == Init /\ [][Next]_vars

\* Searches with paging parameters over pages of well-formed containers.
NextPaging == SearchNext(PagingInputs)
SpecPaging == Init /\ [][NextPaging]_vars

\* Enhancement batches.
NextEnhance ==
  \/ Construct
  \/ SetApiKey
  \/ EnhancePlaces
  \/ \E i \in 1 .. MaxPlaces : ModelSettles(i)
  \/ FinishEnhance
SpecEnhance == Init /\ [][NextEnhance]_vars

\* Searches whose completion order is recorded.
NextOrder == SearchNext(OrderInputs)
SpecOrder == Init /\ [][NextOrder]_vars

\* Searches under fairness: every network call settles, by a response, an
\* error or axios' timeout of 10 s, and the continuation of a settled
\* Promise.all is run.
NextLive == SearchNext(LiveInputs)
SpecLive ==
  /\ Init
  /\ [][NextLive]_vars
  /\ \A s \in Sources : WF_vars(Settle(LiveInputs, s))
  /\ WF_vars(Aggregate)

\* Directions requests.
NextDirections ==
  \/ DirectionsPost
  \/ DirectionsPostMalformed
  \/ DirectionsGet
SpecDirections == Init /\ [][NextDirections]_vars

\* The discover page: typing, searching, and responses in any order.
NextDiscover ==
  \/ \E q \in TypedQueries : SetSearchQuery(q)
  \/ \E key \in Keys : OnKeyPress(key)
  \/ ClickSearch
  \/ \E k \in 1 .. MaxSearches, outcome \in SearchOutcomes : SearchSettles(k, outcome)
SpecDiscover == Init /\ [][NextDiscover]_vars

\* ------------------------------------------------------ claims: search

\* Two names are equal ignoring case: the same length, and character by
\* character the same letter.
SameLetter(a, b) ==
  \/ a = b
  \/ { a, b } \in { { "C", "c" }, { "X", "x" }, { "Y", "y" }, { "B", "b" }, { "Z", "z" } }

EqualIgnoringCase(m, n) ==
  /\ Len(m) = Len(n)
  /\ \A i \in DOMAIN m : SameLetter(m[i], n[i])

\* The elements of s at the indices of K, in increasing order.
RECURSIVE Restrict(_, _)
Restrict(s, K) ==
  IF s = << >> THEN << >>
  ELSE LET front == Restrict(SubSeq(s, 1, Len(s) - 1), K)
       IN IF Len(s) \in K THEN Append(front, s[Len(s)]) ELSE front

Range(s) == { s[i] : i \in DOMAIN s }

\* The per-source lists, flattened in registration order.
Flattened ==
  scrapePromises[1].value \o scrapePromises[2].value \o scrapePromises[3].value

\* The request ran searchPlaces to its end.
Searched == pc = "done" /\ Settled = Sources

\* C1: the deduplicated sequence is the subsequence of first occurrences of
\* the flattened list: no two survivors have names equal ignoring case, every
\* dropped place has an earlier survivor with a name equal ignoring case, and
\* the survivors keep their flattened order.
C1_DedupFirstOccurrences ==
  Searched =>
    LET kept == { k \in DOMAIN Flattened : Flattened[k] \in Range(uniquePlaces) }
    IN /\ uniquePlaces = Restrict(Flattened, kept)
       /\ \A i, j \in DOMAIN uniquePlaces :
            i < j => ~EqualIgnoringCase(uniquePlaces[i].name, uniquePlaces[j].name)
       /\ \A k \in DOMAIN Flattened \ kept :
            \E j \in kept :
              j < k /\ EqualIgnoringCase(Flattened[j].name, Flattened[k].name)

\* C1's case: "Cafe X", "cafe x", "Cafe Y" from the three sources in that
\* order, of which "Cafe X" and "Cafe Y" survive.
C1_Witness ==
  /\ Searched
  /\ [k \in DOMAIN Flattened |-> Flattened[k].name] = << CafeX, cafex, CafeY >>
  /\ [k \in DOMAIN Flattened |-> Flattened[k].source]
       = << "Time Out", "Lonely Planet", "TripAdvisor" >>
  /\ [k \in DOMAIN uniquePlaces |-> uniquePlaces[k].name] = << CafeX, CafeY >>

\* A well-formed container: it has a title and a description and reading it
\* does not throw.
WellFormed(item) == ~item.raises /\ item.title # << >> /\ item.description # ""

\* C2: a failed fetch or load of one source gives [] for that source only:
\* the request is answered 200, and every well-formed result of every other
\* source is in the response, itself or as the first place of its name.
C2_AdapterFailureIsolated ==
  /\ \A s \in Settled :
       fetched[s].kind \in FetchFailures => scrapePromises[s] = Fulfilled(<< >>)
  /\ Searched =>
       /\ response.status = 200
       /\ \A s \in Sources : \A i \in DOMAIN fetched[s].items :
            WellFormed(fetched[s].items[i]) =>
              \E q \in Range(response.body.places) :
                EqualIgnoringCase(q.name, fetched[s].items[i].title)

\* C2's case: one source timed out, one could not be loaded, and the third
\* one's places are returned.
C2_Witness ==
  /\ Searched
  /\ \E s, t, u \in Sources :
       /\ fetched[s].kind = "timeout"
       /\ fetched[t].kind = "load_exception"
       /\ fetched[u].kind = "ok"
       /\ Len(response.body.places) = 2
       /\ \A q \in Range(response.body.places) : q.source = BLOG_SOURCES[u].name

\* The number of pages of total places, page_size >= 1 to the page.
PageCount(total, page_size) ==
  CHOOSE n \in 0 .. total :
    n * page_size >= total /\ (n = 0 \/ (n - 1) * page_size < total)

\* The first occurrences of the names of the flattened list.
FirstOccurrences ==
  { k \in DOMAIN Flattened :
      \A j \in 1 .. k - 1 : ~EqualIgnoringCase(Flattened[j].name, Flattened[k].name) }

\* C4: for page >= 1 and pageSize >= 1 the places returned are the elements
\* of the deduplicated sequence at the (0-based) indices
\* [(page-1)*pageSize, (page-1)*pageSize + pageSize), in order.
C4_PageIsSlice ==
  (Searched /\ args.page >= 1 /\ args.pageSize >= 1) =>
    LET lo == (args.page - 1) * args.pageSize
        window == { i \in DOMAIN uniquePlaces : lo < i /\ i <= lo + args.pageSize }
    IN /\ response.status = 200
       /\ response.body.places = Restrict(uniquePlaces, window)

\* C4's case: three places, page 2 of size 1 holds the second place alone.
C4_Witness ==
  /\ Searched
  /\ args.page = 2 /\ args.pageSize = 1
  /\ Len(uniquePlaces) = 3
  /\ response.body.places = << uniquePlaces[2] >>

\* C5: for every page outside 1..total_pages (beyond the last page, zero or
\* negative) the places list is empty and the request is answered 200.
C5_OutOfRangePageIsEmpty ==
  (Searched /\ args.pageSize >= 1) =>
    LET pages == PageCount(Len(uniquePlaces), args.pageSize)
    IN (args.page < 1 \/ args.page > pages) =>
         response.status = 200 /\ response.body.places = << >>

\* C6: total is the length of the deduplicated sequence, whatever page and
\* page_size are, and total_pages is ceil(total / page_size), which is 0 when
\* total is 0.
C6_TotalAndTotalPages ==
  Searched =>
    /\ response.body.total = Cardinality(FirstOccurrences)
    /\ response.body.total = 0 => response.body.total_pages = Some(0)
    /\ args.pageSize >= 1 =>
         response.body.total_pages = Some(PageCount(response.body.total, args.pageSize))

\* C7: if every source fails, the answer is 200 with places = [], total = 0,
\* total_pages = 0, the requested page and page_size and the query.
C7_AllAdaptersFail ==
  (Searched /\ \A s \in Sources : fetched[s].kind \notin { "ok", "pending" }) =>
    response =
      [status |-> 200,
       body |-> [places |-> << >>, total |-> 0, page |-> args.page,
                 page_size |-> args.pageSize, total_pages |-> Some(0),
                 query |-> args.query, error |-> ""]]

\* ---------------------------------------------------- claims: enhancer

\* e carries every base field of place.
CarriesBase(e, place) ==
  \A f \in DOMAIN place : f \in DOMAIN e /\ e[f] = place[f]

\* e is place with ai_confidence 0 and ai_rank 0 and nothing else.
IsUnenhanced(e, place) ==
  /\ DOMAIN e = DOMAIN place \cup { "ai_confidence", "ai_rank" }
  /\ CarriesBase(e, place)
  /\ e.ai_confidence = 0
  /\ e.ai_rank = 0

\* e carries the recommendation of ThoroughAnswer: confidence 70, the long
\* reasoning and the five tips, which rank 88.
IsThorough(e) ==
  /\ "ai_recommendation" \in DOMAIN e
  /\ e.ai_recommendation.confidence = NumberValue(70)
  /\ e.ai_recommendation.reasoning = LongReasoning
  /\ e.ai_recommendation.local_tips = FiveTips
  /\ e.ai_confidence = 70
  /\ e.ai_rank = 88

\* e carries the complete fixed default recommendation: confidence 70, which
\* with its 51 characters of reasoning and its two tips ranks 55.
IsFallback(e) ==
  /\ "ai_recommendation" \in DOMAIN e
  /\ e.ai_recommendation =
       [confidence |-> NumberValue(70),
        reasoning |-> StringValue("AI analysis provided based on available information", 51),
        personalized_notes |-> StringValue("This place matches your search criteria", 39),
        best_for |-> ArrayValue(<< "General visit", "Local experience" >>),
        avoid_if |-> ArrayValue(<< "No specific concerns" >>),
        best_time_to_visit |-> StringValue("Anytime", 7),
        local_tips |-> ArrayValue(<< "Check current hours", "Consider making reservations" >>)]
  /\ e.ai_confidence = 70
  /\ e.ai_rank = 55

\* The model answered place i with text.
Answered(i, text) == promises[i].outcome = "responded" /\ promises[i].text = text

\* The model call of place i threw: the call was rejected, or the model was
\* never initialised.
Threw(i) == promises[i].outcome \in { "rejected", "not_initialised" }

\* Texts that hold no JSON object: no braces, or braces around what is not
\* JSON.
UnparsableTexts == { << >>, << Prose >>, << Open, Prose, Close >> }

\* C3: enhancePlaces resolves with exactly one EnhancedPlace per input place,
\* each carrying the base fields of its place; whatever happened to the other
\* places, a place the model answered thoroughly has that recommendation.
C3_OneEnhancedPlacePerPlace ==
  /\ enhPc # "rejected"
  /\ enhPc = "done" =>
       /\ Len(enhancedPlaces) = Len(batch)
       /\ \E perm \in Permutations(DOMAIN batch) :
            \A i \in DOMAIN batch :
              /\ CarriesBase(enhancedPlaces[perm[i]], batch[i])
              /\ Answered(i, ThoroughAnswer) => IsThorough(enhancedPlaces[perm[i]])

\* C3's case: of two places one's model call is rejected and the other is
\* answered thoroughly.
C3_Witness ==
  /\ enhPc = "done"
  /\ Len(batch) = 2
  /\ promises[1].outcome = "rejected"
  /\ Answered(2, ThoroughAnswer)

\* C8: without a credential every place is returned unchanged with
\* ai_confidence 0 and ai_rank 0, in input order, and the model is not called.
C8_NoCredentialPassThrough ==
  (enhPc = "done" /\ ~apiKey) =>
    /\ modelCalls = 0
    /\ Len(enhancedPlaces) = Len(batch)
    /\ \A i \in DOMAIN batch : IsUnenhanced(enhancedPlaces[i], batch[i])

\* C8's case: the credential was removed after the model was initialised, and
\* two different places were enhanced.
C8_Witness ==
  /\ enhPc = "done"
  /\ ~apiKey
  /\ model = "initialised"
  /\ Len(batch) = 2
  /\ batch[1] # batch[2]

\* C9: a place whose model is unavailable or whose model call fails gets
\* confidence 0 and rank 0 and keeps its base fields.
C9_FailureGivesZero ==
  \A i \in DOMAIN promises :
    promises[i].outcome \in { "no_key", "not_initialised", "rejected" } =>
      /\ promises[i].state = "resolved"
      /\ IsUnenhanced(promises[i].value[1], batch[i])
      /\ enhPc = "done" => promises[i].value[1] \in Range(enhancedPlaces)

\* C9's case: one place's model call was rejected while another's was
\* answered.
C9_Witness ==
  /\ enhPc = "done"
  /\ \E i, j \in DOMAIN promises :
       promises[i].outcome = "rejected" /\ promises[j].outcome = "responded"

\* C10 as claimed: on a parse failure and on any thrown error alike the place
\* gets the fixed default recommendation with confidence 70 and its rank, and
\* the batch does not fail.
C10_FallbackOnAnyError ==
  /\ enhPc # "rejected"
  /\ \A i \in DOMAIN promises :
       (Threw(i) \/ \E text \in UnparsableTexts : Answered(i, text)) =>
         promises[i].state = "resolved" /\ IsFallback(promises[i].value[1])

\* C10 as amended: on a parse failure of the model's text the place gets the
\* fixed default recommendation with confidence 70 and its rank; on a thrown
\* error of the model call it gets confidence 0 and rank 0 and no
\* recommendation; the batch does not fail.
C10_FallbackOnParseFailure ==
  /\ enhPc # "rejected"
  /\ \A i \in DOMAIN promises :
       /\ (\E text \in UnparsableTexts : Answered(i, text)) =>
            promises[i].state = "resolved" /\ IsFallback(promises[i].value[1])
       /\ Threw(i) =>
            promises[i].state = "resolved" /\ IsUnenhanced(promises[i].value[1], batch[i])

\* C10's case: one place's text holds braces around what is not JSON, and
\* another's model call was rejected.
C10_Witness ==
  /\ enhPc = "done"
  /\ \E i, j \in DOMAIN promises :
       Answered(i, << Open, Prose, Close >>) /\ promises[j].outcome = "rejected"

\* C11: the list enhancePlaces resolves with is in non-increasing order of
\* ai_rank, and places of equal rank are in their input order.
C11_SortedByRankStable ==
  enhPc = "done" =>
    /\ \A i, j \in DOMAIN enhancedPlaces :
         i < j => enhancedPlaces[i].ai_rank >= enhancedPlaces[j].ai_rank
    /\ \E perm \in Permutations(DOMAIN promises) :
         /\ \A i \in DOMAIN promises : enhancedPlaces[perm[i]] = promises[i].value[1]
         /\ \A i, j \in DOMAIN promises :
              (i < j /\ promises[i].value[1].ai_rank = promises[j].value[1].ai_rank)
                => perm[i] < perm[j]

\* C11's case: two different places were both answered thoroughly, so both
\* rank 88, and the first of the input is the first of the result.
C11_Witness ==
  /\ enhPc = "done"
  /\ Len(batch) = 2
  /\ batch[1] # batch[2]
  /\ Answered(1, ThoroughAnswer) /\ Answered(2, ThoroughAnswer)
  /\ enhancedPlaces[1].id = batch[1].id
  /\ enhancedPlaces[1].ai_rank = 88 /\ enhancedPlaces[2].ai_rank = 88

\* Ten times the weighted composite of a recommendation, 0..100 each part:
\* 0.4 of the confidence, 0.3 of the reasoning's length capped at 100
\* characters, 0.3 of the number of tips capped at 5 and counted 20 each.
WeightedTenths(rec) ==
  4 * rec.confidence.n
    + (IF rec.reasoning.n >= 100 THEN 300 ELSE 3 * rec.reasoning.n)
    + (IF Len(rec.local_tips.xs) >= 5 THEN 300 ELSE 60 * Len(rec.local_tips.xs))

\* C12: the rank of every recommendation is its weighted composite rounded
\* to the nearest integer, and in the result a place with confidence 70, at
\* least 100 characters of reasoning and five tips comes before a place with
\* confidence 90 and a reasoning of 20 characters.
C12_RankIsWeightedComposite ==
  /\ \A i \in DOMAIN promises :
       (promises[i].state = "resolved" /\ "ai_recommendation" \in DOMAIN promises[i].value[1]) =>
         LET e == promises[i].value[1]
             tenths == WeightedTenths(e.ai_recommendation)
         IN 10 * e.ai_rank - 5 <= tenths /\ tenths <= 10 * e.ai_rank + 5
  /\ enhPc = "done" =>
       \A i, j \in DOMAIN enhancedPlaces :
         ( /\ IsThorough(enhancedPlaces[i])
           /\ "ai_recommendation" \in DOMAIN enhancedPlaces[j]
           /\ enhancedPlaces[j].ai_recommendation.confidence = NumberValue(90)
           /\ enhancedPlaces[j].ai_recommendation.reasoning = ShortReasoning ) => i < j

\* C12's case: the first place was answered with confidence 90, a short
\* reasoning and five tips, the second with confidence 70, a long reasoning
\* and five tips, and the second comes first.
C12_Witness ==
  /\ enhPc = "done"
  /\ Len(batch) = 2
  /\ batch[1] # batch[2]
  /\ Answered(1, ConfidentAnswerWithTips) /\ Answered(2, ThoroughAnswer)
  /\ enhancedPlaces[1].id = batch[2].id
  /\ enhancedPlaces[1].ai_rank = 88 /\ enhancedPlaces[2].ai_rank = 72

\* ------------------------------------------- claims: search requests

\* The request is a POST whose body was read.
IsPost == request.method = "POST" /\ request.body = "json"

\* C13: a POST whose query is missing or empty is answered 400 with the error
\* "Query parameter is required" and no source is fetched for it; a POST with
\* a non-empty query is answered with the 200 envelope.
C13_PostNeedsQuery ==
  /\ (IsPost /\ request.query \in { Undefined, Some("") }) =>
       /\ pc = "done"
       /\ response.status = 400
       /\ response.body = [NoBody EXCEPT !.error = "Query parameter is required"]
       /\ \A s \in Sources : fetched[s] = NotFetched /\ scrapePromises[s] = Pending
  /\ (IsPost /\ request.query \notin { Undefined, Some("") } /\ pc = "done") =>
       /\ response.status = 200
       /\ response.body.error = ""
       /\ response.body.query = request.query[1]
       /\ response.body.total = Len(uniquePlaces)
       /\ Settled = Sources

\* C13's case: a POST with an empty query was answered 400.
C13_Witness ==
  /\ IsPost
  /\ request.query = Some("")
  /\ response.status = 400

\* C16: a request without paging parameters, GET or POST, is answered with
\* page 1 and page_size 20, hence with the same total_pages and places.
C16_GetDefaultsAsPost ==
  (Searched /\ request.page = Undefined /\ request.page_size = Undefined) =>
    /\ response.body.page = 1
    /\ response.body.page_size = 20
    /\ response.body.total_pages = Some(PageCount(Len(uniquePlaces), 20))
    /\ response.body.places = Restrict(uniquePlaces, 1 .. 20)

\* A well-formed result of the fetched pages, with its source.
Titled(s, item) == [source |-> BLOG_SOURCES[s].name, name |-> item.title]

\* The well-formed results of the fetched pages in registration order of
\* their sources.
InRegistrationOrder ==
  Flat([s \in Sources |->
          LET kept == SelectSeq(fetched[s].items, WellFormed)
          IN [i \in DOMAIN kept |-> Titled(s, kept[i])]])

\* C19: the result is determined by what the sources returned, whatever the
\* order in which they completed: the aggregator answers only after every
\* source has settled, and the places are the first occurrences of each name
\* in registration order of the sources, with the total their number.
C19_ResultIndependentOfCompletionOrder ==
  /\ (pc = "done" /\ response.status = 200) => Settled = Sources
  /\ Searched =>
       LET all == InRegistrationOrder
           first == { k \in DOMAIN all :
                        \A j \in 1 .. k - 1 : ~EqualIgnoringCase(all[j].name, all[k].name) }
       IN /\ [k \in DOMAIN response.body.places |->
                [source |-> response.body.places[k].source,
                 name |-> response.body.places[k].name]] = Restrict(all, first)
          /\ response.body.total = Cardinality(first)

\* C19's case: TripAdvisor completed first with "cafe x", then Time Out with
\* "Cafe X", then Lonely Planet; Time Out's "Cafe X" is the survivor.
C19_Witness ==
  /\ Searched
  /\ completion = << 3, 1, 2 >>
  /\ fetched[3].items = << Item(cafex, "about", FALSE) >>
  /\ fetched[1].items = << Item(CafeX, "about", FALSE) >>
  /\ fetched[2].items = << Item(CafeY, "about", FALSE) >>
  /\ [k \in DOMAIN response.body.places |-> response.body.places[k].source]
       = << "Time Out", "Lonely Planet" >>

\* C20: if every network call settles, every search that was started is
\* answered, and is answered 200 only after every source has settled.
C20_SearchReturns ==
  /\ (pc = "scraping") ~> (pc = "done" /\ response.status # 0)
  /\ []((pc = "done" /\ response.status = 200) => Settled = Sources)

\* C20's case: a search was answered after one source timed out, one failed
\* on the network and one returned a container whose extraction threw.
C20_Witness ==
  /\ pc = "done"
  /\ response.status = 200
  /\ \E s, t, u \in Sources :
       /\ fetched[s].kind = "timeout"
       /\ fetched[t].kind = "network_error"
       /\ fetched[u].kind = "ok"
       /\ \E i \in DOMAIN fetched[u].items : fetched[u].items[i].raises

\* ------------------------------------------------ claims: directions

\* A directions request was read (its body, if any, was JSON) and answered.
DirAnswered == dirRequest.method # "" /\ dirRequest.body # "malformed"

\* C14: a directions request, POST or GET, whose mode is given and is not one
\* of driving, walking, transit, bicycling is answered 400 with the error
\* "Invalid mode. Must be one of: driving, walking, transit, bicycling", and
\* no directions are generated for it.
C14_InvalidModeRejected ==
  ( /\ DirAnswered
    /\ \A c \in { "origin_lat", "origin_lng", "destination_lat", "destination_lng" } :
         dirRequest[c] # Undefined
    /\ dirRequest.mode # Undefined
    /\ dirRequest.mode[1] \notin { "", "driving", "walking", "transit", "bicycling" } ) =>
    /\ dirResponse.status = 400
    /\ dirResponse.body.error
         = "Invalid mode. Must be one of: driving, walking, transit, bicycling"
    /\ dirResponse.body.steps = << >>
    /\ generated = Undefined

\* C15: a directions request, POST or GET, in which one of origin_lat,
\* origin_lng, destination_lat, destination_lng is missing is answered 400
\* with the error "Origin and destination coordinates are required";
\* directions are generated only when the caller supplied all four.
C15_MissingCoordinateRejected ==
  DirAnswered =>
    LET missing ==
          { c \in { "origin_lat", "origin_lng", "destination_lat", "destination_lng" } :
              dirRequest[c] = Undefined }
    IN /\ missing # {} =>
            /\ dirResponse.status = 400
            /\ dirResponse.body.error = "Origin and destination coordinates are required"
       /\ generated # Undefined => missing = {}

\* The template whose steps a mode is answered with.
TemplateOf(mode) ==
  IF mode = "walking" THEN MOCK_DIRECTIONS.walking
  ELSE IF mode = "transit" THEN MOCK_DIRECTIONS.transit
  ELSE MOCK_DIRECTIONS.default

\* C17: the scale factor is distance / 2.0 clamped to 0.5 .. 2.0, and each
\* returned step distance is the template's step distance times that factor
\* to one decimal; from distance 4.0 on it is exactly twice the template's.
C17_StepsScaledByClampedFactor ==
  (generated # Undefined /\ dirResponse.status = 200) =>
    LET g == generated[1]
        factor == IF g.distance <= 1000 THEN 1000
                  ELSE IF g.distance >= 4000 THEN 4000 ELSE g.distance
        template == TemplateOf(g.mode).steps
        steps == dirResponse.body.steps
    IN /\ g.scaleFactor = factor
       /\ Len(steps) = Len(template)
       /\ \A i \in DOMAIN steps :
            LET n == ParseFloat(steps[i].distance, 1)
                t == ParseFloat(template[i].distance, 1)
            IN /\ steps[i].distance = FormatMiles(n)
               /\ 2000 * n - 1000 <= t * factor /\ t * factor <= 2000 * n + 1000
               /\ g.distance >= 4000 => n = 2 * t

\* C17's case: a driving request over 20.0 miles, whose steps are 1.0, 2.4
\* and 0.6 miles, twice the template's 0.5, 1.2 and 0.3.
C17_Witness ==
  /\ generated # Undefined
  /\ dirResponse.status = 200
  /\ generated[1].mode = "driving"
  /\ generated[1].distance = 20004
  /\ [i \in DOMAIN dirResponse.body.steps |-> dirResponse.body.steps[i].distance]
       = << << "1", ".", "0", " ", "m", "i" >>,
            << "2", ".", "4", " ", "m", "i" >>,
            << "0", ".", "6", " ", "m", "i" >> >>

\* C18: for mode walking with the destination at the origin the scale factor
\* is 0.5, so that the first step is 0.3 miles and 5 minutes, and the total
\* distance is "0.0 mi".
C18_WalkingNowhere ==
  ( /\ generated # Undefined
    /\ generated[1].mode = "walking"
    /\ generated[1].originLat = generated[1].destLat
    /\ generated[1].originLng = generated[1].destLng ) =>
    /\ dirResponse.status = 200
    /\ 2 * generated[1].scaleFactor = ScaleUnit
    /\ dirResponse.body.steps[1].distance = << "0", ".", "3", " ", "m", "i" >>
    /\ dirResponse.body.steps[1].duration = << "5", " ", "m", "i", "n" >>
    /\ dirResponse.body.total_distance = << "0", ".", "0", " ", "m", "i" >>

\* C18's case: a POST for walking directions from a point to itself was
\* answered.
C18_Witness ==
  /\ dirRequest.method = "POST"
  /\ dirRequest.mode = Some("walking")
  /\ dirRequest.origin_lat = dirRequest.destination_lat
  /\ dirRequest.origin_lng = dirRequest.destination_lng
  /\ dirRequest.origin_lat # Undefined /\ dirRequest.origin_lng # Undefined
  /\ dirResponse.status = 200

\* The tenths of a mile a distance text gives, and the minutes a template's
\* duration text gives.
TenthsOf(text) == ParseFloat(text, 1)
MinutesOf(text) == ParseFloat(text, 0)

\* n is x * factor / ScaleUnit rounded to the nearest integer.
IsScaled(n, x, factor) ==
  2000 * n - 1000 <= x * factor /\ x * factor <= 2000 * n + 1000

\* A duration of r minutes as text: "N min" below an hour, "Hh Mm" from an
\* hour on, "Hh" for whole hours.
DurationText(r) ==
  IF r < 60 THEN Digits(r) \o << " ", "m", "i", "n" >>
  ELSE IF r % 60 = 0 THEN Digits(r \div 60) \o << "h" >>
  ELSE Digits(r \div 60) \o << "h", " " >> \o Digits(r % 60) \o << "m" >>

\* text is the duration template scaled by factor, rounded and formatted.
IsScaledDuration(text, template, factor) ==
  \E r \in 0 .. 200 : IsScaled(r, MinutesOf(template), factor) /\ text = DurationText(r)

\* The sum of the step distances of a response, in tenths of a mile.
RECURSIVE SumOfSteps(_)
SumOfSteps(steps) ==
  IF steps = << >> THEN 0 ELSE TenthsOf(Head(steps).distance) + SumOfSteps(Tail(steps))

\* C21: total_distance is the template's total distance times the scale
\* factor and total_duration the template's total duration times the scale
\* factor, so that the total distance is the sum of the step distances up to
\* their rounding.
C21_TotalsScaledFromTemplate ==
  (generated # Undefined /\ dirResponse.status = 200) =>
    LET g == generated[1]
        template == TemplateOf(g.mode)
        total == TenthsOf(dirResponse.body.total_distance)
        sum == SumOfSteps(dirResponse.body.steps)
    IN /\ IsScaled(total, TenthsOf(template.total_distance), g.scaleFactor)
       /\ IsScaledDuration(dirResponse.body.total_duration, template.total_duration,
                           g.scaleFactor)
       /\ total - sum <= Len(template.steps) /\ sum - total <= Len(template.steps)

\* C22: a mode that reaches generateDirections is answered without an error
\* and with the requested mode in the mode field; a mode without a template
\* of its own is answered with the steps of the default template.
C22_UnknownModeFallsBack ==
  generated # Undefined =>
    /\ dirResponse.status = 200
    /\ dirResponse.body.mode = generated[1].mode
    /\ generated[1].mode \notin { "walking", "transit" } =>
         [i \in DOMAIN dirResponse.body.steps |-> dirResponse.body.steps[i].instruction]
           = << "Head north on Main St", "Turn right onto Market St",
                "Turn left onto Destination St" >>

\* C26: each step duration and the total duration are the template's minutes
\* times the scale factor, rounded, as "N min" below 60 and as "Hh Mm" from
\* 60 on, "Hh" when M = 0: walking at the factor 2.0 takes "1h 20m" in all.
C26_DurationsRoundedAndFormatted ==
  (generated # Undefined /\ dirResponse.status = 200) =>
    LET g == generated[1]
        template == TemplateOf(g.mode)
        steps == dirResponse.body.steps
    IN /\ Len(steps) = Len(template.steps)
       /\ \A i \in DOMAIN steps :
            IsScaledDuration(steps[i].duration, template.steps[i].duration, g.scaleFactor)
       /\ IsScaledDuration(dirResponse.body.total_duration, template.total_duration,
                           g.scaleFactor)
       /\ (g.mode = "walking" /\ g.distance >= 4000) =>
            dirResponse.body.total_duration = << "1", "h", " ", "2", "0", "m" >>

\* C26's case: walking over 3.0 miles, where the 40 minutes of the template
\* become 60 and are shown as "1h", after steps of 15, 36 and 9 minutes.
C26_Witness ==
  /\ generated # Undefined
  /\ dirResponse.status = 200
  /\ generated[1].mode = "walking"
  /\ generated[1].distance = 2999
  /\ dirResponse.body.total_duration = << "1", "h" >>
  /\ [i \in DOMAIN dirResponse.body.steps |-> dirResponse.body.steps[i].duration]
       = << << "1", "5", " ", "m", "i", "n" >>,
            << "3", "6", " ", "m", "i", "n" >>,
            << "9", " ", "m", "i", "n" >> >>

\* --------------------------------------------- claims: recommendations

\* The braces of a text.
OpensOf(text) == { i \in DOMAIN text : text[i].t = "{" }
ClosesOf(text) == { i \in DOMAIN text : text[i].t = "}" }

\* The text holds a well-formed JSON object: after its first "{" come
\* members only, up to a "}".
HoldsObject(text) ==
  \E o \in OpensOf(text), c \in ClosesOf(text) :
    /\ \A i \in OpensOf(text) : o <= i
    /\ o < c
    /\ \A i \in o + 1 .. c - 1 : text[i].t = "member"

\* The values the first object of such a text gives for key.
SuppliedBy(text, key) ==
  LET o == CHOOSE i \in OpensOf(text) : \A j \in OpensOf(text) : i <= j
      c == CHOOSE i \in ClosesOf(text) : i > o /\ \A j \in ClosesOf(text) : j > o => i <= j
  IN { text[i].val : i \in { j \in o + 1 .. c - 1 : text[j].key = key } }

\* The default of each field of a recommendation.
FieldDefaults ==
  [confidence |-> NumberValue(75),
   reasoning |-> StringValue("AI analysis available", 21),
   personalized_notes |-> StringValue("Personalized insights provided", 30),
   best_for |-> ArrayValue(<< "General visit" >>),
   avoid_if |-> ArrayValue(<< "No specific concerns" >>),
   best_time_to_visit |-> StringValue("Anytime", 7),
   local_tips |-> ArrayValue(<< "Check current hours" >>)]

\* The recommendation place i was resolved with.
RecommendationOf(i) == promises[i].value[1].ai_recommendation

\* Place i was answered with text and resolved with a recommendation.
Recommended(i, text) ==
  /\ Answered(i, text)
  /\ promises[i].state = "resolved"
  /\ "ai_recommendation" \in DOMAIN promises[i].value[1]

\* C23: when the model's text is one JSON object, with or without prose
\* around it, each field the object lacks takes its default and each field
\* it supplies keeps the supplied value, whatever that value is.
C23_MissingFieldsDefaulted ==
  \A i \in DOMAIN promises : \A text \in ModelTexts :
    ( /\ Answered(i, text)
      /\ HoldsObject(text)
      /\ Cardinality(OpensOf(text)) = 1 /\ Cardinality(ClosesOf(text)) = 1 ) =>
      /\ Recommended(i, text)
      /\ \A key \in DOMAIN FieldDefaults :
           IF SuppliedBy(text, key) = {}
           THEN RecommendationOf(i)[key] = FieldDefaults[key]
           ELSE RecommendationOf(i)[key] \in SuppliedBy(text, key)

\* C24: whenever the model's text holds a well-formed JSON object, whatever
\* precedes or follows it, the recommendation is built from that first
\* object: it is not the fallback, and it has the object's confidence.
C24_FirstObjectIsParsed ==
  \A i \in DOMAIN promises : \A text \in ModelTexts :
    (Answered(i, text) /\ HoldsObject(text)) =>
      /\ Recommended(i, text)
      /\ ~IsFallback(promises[i].value[1])
      /\ \A v \in SuppliedBy(text, "confidence") :
           v.n # 0 => RecommendationOf(i).confidence = v

\* C25: every place the enhancer returns has a confidence within 0 .. 100,
\* in ai_confidence and in its recommendation.
C25_ConfidenceInRange ==
  \A i \in DOMAIN promises :
    promises[i].state = "resolved" =>
      LET e == promises[i].value[1]
      IN /\ 0 <= e.ai_confidence /\ e.ai_confidence <= 100
         /\ "ai_recommendation" \in DOMAIN e =>
              0 <= e.ai_recommendation.confidence.n /\ e.ai_recommendation.confidence.n <= 100

\* C27: enhancePlace never rejects, whether or not the credential is present
\* at the call and whether or not the model was initialised at construction:
\* it resolves to the place's base fields and more; without a credential, or
\* with a credential and a model that was never initialised, it resolves at
\* once to ai_confidence 0 and ai_rank 0 and the model is not called for it.
C27_EnhancePlaceNeverRejects ==
  /\ enhPc # "rejected"
  /\ \A i \in DOMAIN promises :
       /\ promises[i].state # "rejected"
       /\ promises[i].state = "resolved" => CarriesBase(promises[i].value[1], batch[i])
       /\ (enhPc \in { "awaiting", "done" } /\ (~apiKey \/ model = "undefined")) =>
            /\ promises[i].state = "resolved"
            /\ IsUnenhanced(promises[i].value[1], batch[i])

\* C27's case: the singleton was constructed without a credential, the
\* credential appeared afterwards, and two places were enhanced.
C27_Witness ==
  /\ enhPc = "done"
  /\ apiKey
  /\ model = "undefined"
  /\ Len(batch) = 2
  /\ \A i \in DOMAIN promises : promises[i].outcome = "not_initialised"

\* ----------------------------------------- claims: pages and extraction

\* The places searchPlaces returns for page p of the deduplicated sequence
\* of the request at hand.
PageOf(p) == SearchResponse(uniquePlaces, [args EXCEPT !.page = p]).places

\* C28: for page_size >= 1, the pages 1, 2, ..., total_pages of the
\* deduplicated sequence, one after the other, are that sequence exactly, and
\* no page, the returned one included, holds more than page_size places.
C28_PagesPartition ==
  (Searched /\ args.pageSize >= 1) =>
    /\ response.status = 200
    /\ response.body.total_pages # Undefined
    /\ Flat([p \in 1 .. response.body.total_pages[1] |-> PageOf(p)]) = uniquePlaces
    /\ \A p \in Pages : Len(PageOf(p)) <= args.pageSize
    /\ response.body.places = PageOf(args.page)
    /\ Len(response.body.places) <= args.pageSize

\* C28's case: three places in pages of two, the second page asked for: it
\* holds the third place alone.
C28_Witness ==
  /\ Searched
  /\ args.pageSize = 2 /\ args.page = 2
  /\ Len(uniquePlaces) = 3
  /\ response.body.total_pages = Some(2)
  /\ PageOf(1) = << uniquePlaces[1], uniquePlaces[2] >>
  /\ response.body.places = << uniquePlaces[3] >>

\* The containers of source s that have a title and a description and whose
\* extraction does not throw.
Extractable(s) ==
  { i \in DOMAIN fetched[s].items :
      LET item == fetched[s].items[i]
      IN ~item.raises /\ item.title # NoText /\ item.description # "" }

\* C29: a source whose page was fetched and loaded contributes one place for
\* each container that has a title and a description and whose extraction
\* does not throw, in document order, whatever the other containers of the
\* page do; only a failed fetch or load empties the whole contribution; and
\* every returned place has a non-empty name.
C29_ItemFailureIsolated ==
  /\ \A s \in Settled :
       /\ scrapePromises[s].state = "fulfilled"
       /\ fetched[s].kind = "ok" =>
            LET kept == Restrict(fetched[s].items, Extractable(s))
            IN /\ Len(scrapePromises[s].value) = Len(kept)
               /\ \A k \in DOMAIN kept :
                    /\ scrapePromises[s].value[k].name = kept[k].title
                    /\ scrapePromises[s].value[k].address = kept[k].description
       /\ fetched[s].kind \in FetchFailures => scrapePromises[s].value = << >>
       /\ \A k \in DOMAIN scrapePromises[s].value :
            scrapePromises[s].value[k].name # NoText
  /\ Searched => \A q \in Range(response.body.places) : q.name # NoText

\* C29's case: the second of three containers throws, and the places of the
\* first and of the third are returned.
C29_Witness ==
  \E s \in Settled :
    /\ fetched[s].kind = "ok"
    /\ Len(fetched[s].items) = 3
    /\ ~fetched[s].items[1].raises
    /\ fetched[s].items[2].raises
    /\ ~fetched[s].items[3].raises
    /\ Len(scrapePromises[s].value) = 2
    /\ scrapePromises[s].value[1].name = fetched[s].items[1].title
    /\ scrapePromises[s].value[2].name = fetched[s].items[3].title

\* ------------------------------------------------ claims: discover page

\* The searches still in flight.
InFlight == { k \in DOMAIN searches : searches[k].state = "pending" }

\* C30: isLoading is true for as long as a search is in flight, and once
\* every search has settled the places shown are those returned for the
\* search issued last.
C30_LatestSearchShown ==
  /\ InFlight # {} => isLoading
  /\ (searches # << >> /\ InFlight = {} /\ searches[Len(searches)].state = "fulfilled") =>
       shownPlaces = searches[Len(searches)].places

====
